---- MODULE Spec2Model ----
(***************************************************************************)
(* Model of the STM32F103 USB peripheral driver (src/src/bus.rs): the      *)
(* packet-memory allocator, endpoint allocation, enable, reset and the     *)
(* poll state machine, together with the interrupt-status register and the *)
(* endpoint registers the driver reads and writes.                         *)
(*                                                                         *)
(* The endpoint module (endpoint.rs: Endpoint, NUM_ENDPOINTS, MEM_START,   *)
(* MEM_SIZE, calculate_count_rx, configure) is used by bus.rs but is not   *)
(* among the source files; the definitions that stand for it follow the    *)
(* specification document and are marked as such where they are defined.   *)
(***************************************************************************)
EXTENDS Integers, Sequences, FiniteSets, TLC

(***************************************************************************)
(* Constants of endpoint.rs (bus.rs line 14 imports them).  The values are *)
(* those of the STM32F103 peripheral: 8 endpoint register slots, 512 bytes *)
(* of packet memory, the first 64 of which hold the buffer-descriptor      *)
(* table.                                                                  *)
(***************************************************************************)
NUM_ENDPOINTS == 8

MEM_START == 64

MEM_SIZE == 512

(***************************************************************************)
(* Bounds of the model.                                                    *)
(***************************************************************************)
\* alloc_ep calls issued before enable
MaxAllocs == 2

(***************************************************************************)
(* Input domains.                                                          *)
(***************************************************************************)
Slots == 0 .. (NUM_ENDPOINTS - 1)

\* EndpointDirection
Dirs == {"In", "Out"}

\* EndpointType; NoType is Option::None of Endpoint::ep_type()
EpTypes == {"Control", "Isochronous", "Bulk", "Interrupt"}

NoType == "None"

\* ep_addr: Option<EndpointAddress>; NoAddr stands for None
NoAddr == -1

ReqAddrs == {NoAddr, 0, 1, 2, NUM_ENDPOINTS - 1}

ReqTypes == {"Control", "Bulk", "Interrupt"}

\* max_packet_size values: an odd one, the full-speed bulk size, one that
\* fills packet memory exactly (MEM_SIZE - MEM_START), and one beyond every
\* encodable receive size
ReqSizes == {7, 64, 448, 1030}

Requests ==
    [ep_dir : Dirs, ep_addr : ReqAddrs, ep_type : ReqTypes, max_packet_size : ReqSizes]

\* a buffer descriptor that is not set (Option::None)
NoBuf == [set |-> FALSE, addr |-> 0, size |-> 0, bl_size |-> 0, num_block |-> 0]

Buf(addr, size, bl_size, num_block) ==
    [set |-> TRUE, addr |-> addr, size |-> size, bl_size |-> bl_size, num_block |-> num_block]

(***************************************************************************)
(* calculate_count_rx (endpoint.rs), from the specification: a receive     *)
(* size is encoded as whole 2-byte blocks (sizes up to 62) or as 32-byte   *)
(* blocks (up to 32 of them, stored as count minus one); the size is       *)
(* rounded up to the block unit, and a size beyond both families is        *)
(* rejected with SizeOverflow.                                             *)
(***************************************************************************)
RoundUp(n, unit) == ((n + unit - 1) \div unit) * unit

calculate_count_rx(size) ==
    IF size <= 62
    THEN LET s == RoundUp(size, 2)
         IN  [ok |-> TRUE, size |-> s, bl_size |-> 0, num_block |-> s \div 2]
    ELSE IF size <= 1024
    THEN LET s == RoundUp(size, 32)
         IN  [ok |-> TRUE, size |-> s, bl_size |-> 1, num_block |-> (s \div 32) - 1]
    ELSE [ok |-> FALSE, size |-> 0, bl_size |-> 0, num_block |-> 0]

(***************************************************************************)
(* UsbBus::alloc_ep_mem (bus.rs 69-80).  kind is "Panic" when the          *)
(* assert!(size & 1 == 0) fails, "SizeOverflow" for the Err, "Ok" for      *)
(* Ok(addr); next is the cursor after the call.                            *)
(***************************************************************************)
alloc_ep_mem_NoAdvance(next_mem, size) ==
    IF size % 2 # 0
    THEN [kind |-> "Panic", addr |-> 0, next |-> next_mem]
    ELSE IF next_mem + size > MEM_SIZE
    THEN [kind |-> "SizeOverflow", addr |-> 0, next |-> next_mem]
    ELSE [kind |-> "Ok", addr |-> next_mem, next |-> next_mem]

alloc_ep_mem_Strict(next_mem, size) ==
    IF size % 2 # 0
    THEN [kind |-> "Panic", addr |-> 0, next |-> next_mem]
    ELSE IF next_mem + size >= MEM_SIZE
    THEN [kind |-> "SizeOverflow", addr |-> 0, next |-> next_mem]
    ELSE [kind |-> "Ok", addr |-> next_mem, next |-> next_mem + size]

alloc_ep_mem(next_mem, size) ==
    IF size % 2 # 0
    THEN [kind |-> "Panic", addr |-> 0, next |-> next_mem]
    ELSE IF next_mem + size > MEM_SIZE
    THEN [kind |-> "SizeOverflow", addr |-> 0, next |-> next_mem]
    ELSE [kind |-> "Ok", addr |-> next_mem, next |-> next_mem + size]

(***************************************************************************)
(* UsbBus::alloc_ep (bus.rs 84-123) as a function of the allocation state  *)
(* d = [ep_type, in_buf, out_buf, next_ep_mem] and the request.  The       *)
(* result is the state after the call and what the call returned:          *)
(* kind "Ok" (index, dir and the packet-memory offset of the new buffer),  *)
(* "SizeOverflow", "EndpointOverflow", or "Panic" when the allocator's     *)
(* assertion fails.  A slot's type is set (line 96) before the direction   *)
(* is looked at, and stays set when the call then fails.                   *)
(***************************************************************************)
AllocRes(kind, index, dir, addr) ==
    [kind |-> kind, index |-> index, dir |-> dir, addr |-> addr]

\* the range of the for loop (line 92)
ScanFirstFromZero(req) == IF req.ep_addr = NoAddr THEN 0 ELSE req.ep_addr

ScanFirst(req) == IF req.ep_addr = NoAddr THEN 1 ELSE req.ep_addr

ScanLast(req) == IF req.ep_addr = NoAddr THEN NUM_ENDPOINTS - 1 ELSE req.ep_addr

\* lines 102-110: EndpointDirection::Out if !ep.is_out_buf_set()
AllocOut(d, req, index) ==
    LET c == calculate_count_rx(req.max_packet_size)
        m == alloc_ep_mem(d.next_ep_mem, c.size)
    IN  IF ~c.ok
        THEN [d |-> d, res |-> AllocRes("SizeOverflow", index, "Out", 0)]
        ELSE IF m.kind # "Ok"
        THEN [d |-> d, res |-> AllocRes(m.kind, index, "Out", 0)]
        ELSE [d |-> [d EXCEPT !.next_ep_mem = m.next,
                              !.out_buf[index] = Buf(m.addr, c.size, c.bl_size, c.num_block)],
              res |-> AllocRes("Ok", index, "Out", m.addr)]

\* lines 111-117: EndpointDirection::In if !ep.is_in_buf_set()
AllocIn(d, req, index) ==
    LET m == alloc_ep_mem(d.next_ep_mem, req.max_packet_size)
    IN  IF m.kind # "Ok"
        THEN [d |-> d, res |-> AllocRes(m.kind, index, "In", 0)]
        ELSE [d |-> [d EXCEPT !.next_ep_mem = m.next,
                              !.in_buf[index] = Buf(m.addr, req.max_packet_size, 0, 0)],
              res |-> AllocRes("Ok", index, "In", m.addr)]

\* line 97: Some(t) if t != ep_type => continue
TypeConflictNever(t, req_type) == FALSE

TypeConflict(t, req_type) == t # NoType /\ t # req_type

\* line 102: EndpointDirection::Out if !ep.is_out_buf_set()
OutArm(d, req, index) == req.ep_dir = "Out" /\ ~d.out_buf[index].set

\* line 111: EndpointDirection::In if !ep.is_in_buf_set()
InArmUnguarded(d, req, index) == req.ep_dir = "In"

InArm(d, req, index) == req.ep_dir = "In" /\ ~d.in_buf[index].set

RECURSIVE AllocScan(_, _, _)
AllocScan(d, req, index) ==
    IF index > ScanLast(req)
    THEN [d |-> d, res |-> AllocRes("EndpointOverflow", 0, req.ep_dir, 0)]
    ELSE LET t  == d.ep_type[index]
             d1 == IF t = NoType THEN [d EXCEPT !.ep_type[index] = req.ep_type] ELSE d
         IN  IF TypeConflict(t, req.ep_type)
             THEN AllocScan(d, req, index + 1)
             ELSE IF OutArm(d1, req, index)
             THEN AllocOut(d1, req, index)
             ELSE IF InArm(d1, req, index)
             THEN AllocIn(d1, req, index)
             ELSE AllocScan(d1, req, index + 1)

alloc_ep(d, req) == AllocScan(d, req, ScanFirst(req))

(***************************************************************************)
(* UsbBus::enable (bus.rs 128-135): the highest index of a slot with an    *)
(* input or output descriptor, 0 when there is none.                       *)
(***************************************************************************)
RECURSIVE MaxScan(_, _, _)
MaxScan(d, index, max) ==
    IF index >= NUM_ENDPOINTS
    THEN max
    ELSE MaxScan(d, index + 1,
                 IF d.out_buf[index].set \/ d.in_buf[index].set THEN index ELSE max)

RECURSIVE FirstScan(_, _)
FirstScan(d, index) ==
    IF index >= NUM_ENDPOINTS
    THEN 0
    ELSE IF d.out_buf[index].set \/ d.in_buf[index].set
    THEN index
    ELSE FirstScan(d, index + 1)

ComputeMaxEndpointFirst(d) == FirstScan(d, 0)

ComputeMaxEndpoint(d) == MaxScan(d, 0, 0)

(***************************************************************************)
(* State.                                                                  *)
(***************************************************************************)
VARIABLES
    \* --- UsbBus fields (bus.rs 22-28)
    ep_type,        \* endpoints[i].ep_type()
    in_buf,         \* endpoints[i] input descriptor
    out_buf,        \* endpoints[i] output descriptor
    next_ep_mem,    \* UsbBus::next_ep_mem, the allocator cursor
    max_endpoint,   \* UsbBus::max_endpoint
    guard,          \* regs: AtomicMutex<USB>, "free" or "held"
    \* --- lifecycle
    enabled,        \* enable() has been called (the bus wrapper is frozen)
    panicked,       \* the driver aborted (a failed assert! or unwrap)
    script,         \* the alloc_ep requests the device stack has yet to make
    allocs,         \* number of alloc_ep calls made
    alloc_req,      \* the request of the last alloc_ep call
    alloc_res,      \* what the last alloc_ep call returned
    \* --- peripheral registers
    cntr,           \* CNTR: pdwn, fres, fsusp, lpmode
    btable,         \* BTABLE
    istr,           \* ISTR: wkup, reset, susp (ctr is driven by the endpoints)
    daddr,          \* DADDR: ef, add
    ep_reg,         \* EPnR per slot: ctr_rx, ctr_tx, setup, stat_rx, stat_tx
    bdt,            \* buffer-descriptor table entries written by configure
    \* --- the poll call in progress (its stack frame)
    pc,             \* "idle", "read", "branch", "scan", "ret"
    snap,           \* istr as read at entry (line 181)
    scan_idx,       \* index of the for loop (line 212)
    acc,            \* ep_out, ep_in_complete, ep_setup accumulated so far
    res_kind,       \* the PollResult variant chosen
    \* --- what the last step was and what it returned
    op,
    ret,
    \* --- the rest of the peripheral and of the device
    fnr,            \* FNR: rxdp, rxdm, the levels of the data lines
    pkt,            \* packet memory: per slot the bytes of the transmit and
                    \* of the receive buffer
    reset_cap,      \* UsbBus::reset is Some (enable_reset was called)
    reset_pin,      \* PA12 as driven through Reset::pin
    masked,         \* interrupts are masked (inside interrupt::free)
    rmw,            \* the value read by a register modify whose write is
                    \* still to come
    read_buf,       \* SerialPort::read_buf (examples/serial.rs 56)
    call            \* the last read, write, is_stalled or force_reset call
                    \* and its result

allocVars == <<ep_type, in_buf, out_buf, next_ep_mem>>

lifeVars == <<script, allocs, alloc_req, alloc_res>>

regVars == <<cntr, btable, istr, daddr, ep_reg, bdt>>

frameVars == <<pc, snap, scan_idx, acc, res_kind>>

extVars == <<fnr, pkt, reset_cap, reset_pin, masked, rmw, read_buf, call>>

vars == <<ep_type, in_buf, out_buf, next_ep_mem, max_endpoint, guard, enabled, panicked,
          script, allocs, alloc_req, alloc_res, cntr, btable, istr, daddr, ep_reg, bdt,
          pc, snap, scan_idx, acc, res_kind, op, ret,
          fnr, pkt, reset_cap, reset_pin, masked, rmw, read_buf, call>>

\* the allocation state as the record alloc_ep works on
AllocState ==
    [ep_type |-> ep_type, in_buf |-> in_buf, out_buf |-> out_buf,
     next_ep_mem |-> next_ep_mem]

NoRequest == [ep_dir |-> "In", ep_addr |-> NoAddr, ep_type |-> NoType, max_packet_size |-> 0]

NoCall == AllocRes("NoCall", 0, "In", 0)

\* EndpointStatus
EpStatus == {"Disabled", "Stall", "Nak", "Valid"}

\* EPnR after a peripheral reset
EpRegReset ==
    [ctr_rx |-> FALSE, ctr_tx |-> FALSE, setup |-> FALSE,
     stat_rx |-> "Disabled", stat_tx |-> "Disabled"]

NoBdt == [addr_tx |-> 0, addr_rx |-> 0, bl_size |-> 0, num_block |-> 0]

IstrZero == [wkup |-> FALSE, reset |-> FALSE, susp |-> FALSE]

NoSnap == [wkup |-> FALSE, reset |-> FALSE, susp |-> FALSE, ctr |-> FALSE]

NoAcc == [ep_out |-> 0, ep_in_complete |-> 0, ep_setup |-> 0]

\* PollResult; the masks are meaningful for Data only
PollResult(kind, a) ==
    [kind |-> kind, ep_out |-> a.ep_out, ep_in_complete |-> a.ep_in_complete,
     ep_setup |-> a.ep_setup]

NoRet == PollResult("NoCall", NoAcc)

\* an empty packet buffer pair
NoPkt == [tx |-> <<>>, rx |-> <<>>]

\* a call of fn on endpoint (index, dir) with argument arg that returned
\* kind (and val, for Ok)
Call(fn, index, dir, arg, kind, val) ==
    [fn |-> fn, index |-> index, dir |-> dir, arg |-> arg, kind |-> kind, val |-> val]

NoIo == Call("none", 0, "In", 0, "NoCall", 0)

(***************************************************************************)
(* UsbBus::usb (bus.rs 40-54): the driver as constructed, the peripheral   *)
(* registers at their reset values (CNTR = FRES | PDWN, the others 0).     *)
(***************************************************************************)
InitDriver ==
    /\ ep_type = [i \in Slots |-> NoType]
    /\ in_buf = [i \in Slots |-> NoBuf]
    /\ out_buf = [i \in Slots |-> NoBuf]
    /\ next_ep_mem = MEM_START
    /\ max_endpoint = 0
    /\ guard = "free"
    /\ enabled = FALSE
    /\ panicked = FALSE
    /\ allocs = 0
    /\ alloc_req = NoRequest
    /\ alloc_res = NoCall
    /\ cntr = [pdwn |-> TRUE, fres |-> TRUE, fsusp |-> FALSE, lpmode |-> FALSE]
    /\ btable = 0
    /\ istr = IstrZero
    /\ daddr = [ef |-> FALSE, add |-> 0]
    /\ ep_reg = [i \in Slots |-> EpRegReset]
    /\ bdt = [i \in Slots |-> NoBdt]
    /\ pc = "idle"
    /\ snap = NoSnap
    /\ scan_idx = 0
    /\ acc = NoAcc
    /\ res_kind = "None"
    /\ op = "usb"
    /\ ret = NoRet
    /\ fnr = [rxdp |-> FALSE, rxdm |-> FALSE]
    /\ pkt = [i \in Slots |-> NoPkt]
    /\ reset_cap = FALSE
    /\ reset_pin = "idle"
    /\ masked = FALSE
    /\ rmw = IstrZero
    /\ read_buf = <<>>
    /\ call = NoIo

Init ==
    /\ InitDriver
    /\ script = <<>>

(***************************************************************************)
(* alloc_ep is a &mut self method reached through the bus wrapper          *)
(* (UsbBus::usb returns UsbBusWrapper<Self>, line 56), which enable        *)
(* freezes: it is only called before enable.                               *)
(***************************************************************************)
AllocEp(req) ==
    /\ ~enabled
    /\ ~panicked
    /\ LET r == alloc_ep(AllocState, req)
       IN  /\ ep_type' = r.d.ep_type
           /\ in_buf' = r.d.in_buf
           /\ out_buf' = r.d.out_buf
           /\ next_ep_mem' = r.d.next_ep_mem
           /\ alloc_res' = r.res
           /\ panicked' = (r.res.kind = "Panic")
    /\ alloc_req' = req
    /\ allocs' = allocs + 1
    /\ op' = "alloc_ep"
    /\ UNCHANGED <<max_endpoint, guard, enabled, regVars, frameVars, ret>>
    /\ UNCHANGED extVars

\* any request, up to MaxAllocs calls
AllocAny ==
    /\ allocs < MaxAllocs
    /\ \E req \in Requests : AllocEp(req)
    /\ UNCHANGED script

(***************************************************************************)
(* UsbBus::enable (bus.rs 125-150).  try_lock().unwrap() at line 138       *)
(* cannot fail: enable is a &mut self method, no poll is in flight.        *)
(***************************************************************************)
Enable ==
    /\ ~enabled
    /\ ~panicked
    /\ enabled' = TRUE
    /\ max_endpoint' = ComputeMaxEndpoint(AllocState)
    /\ cntr' = [cntr EXCEPT !.pdwn = FALSE, !.fres = FALSE]
    /\ btable' = 0
    /\ istr' = IstrZero
    /\ op' = "enable"
    /\ UNCHANGED <<allocVars, guard, panicked, lifeVars, daddr, ep_reg, bdt, frameVars, ret>>
    /\ UNCHANGED extVars

Next ==
    \/ AllocAny
    \/ Enable

Spec == Init /\ [][Next]_vars

(***************************************************************************)
(* The peripheral as the driver sees it.  ISTR's wakeup, reset and suspend *)
(* bits are sticky: the hardware sets them, software clears them.          *)
(* ISTR.CTR is read-only and stands as long as some endpoint register has  *)
(* CTR_RX or CTR_TX set; poll never writes it (lines 206-234).  A register *)
(* access (read, write, or the read-modify-write of modify) is one step.   *)
(***************************************************************************)
IstrCtr(regs) == \E i \in Slots : regs[i].ctr_rx \/ regs[i].ctr_tx

\* regs.istr.read() (line 181)
ReadIstr(r, regs) ==
    [wkup |-> r.wkup, reset |-> r.reset, susp |-> r.susp, ctr |-> IstrCtr(regs)]

StatusBits == {"wkup", "reset", "susp"}

HwStatus(bit) ==
    /\ enabled
    /\ ~panicked
    /\ ~istr[bit]
    /\ istr' = [istr EXCEPT ![bit] = TRUE]
    /\ op' = "hw"
    /\ UNCHANGED <<allocVars, max_endpoint, guard, enabled, panicked, lifeVars,
                   cntr, btable, daddr, ep_reg, bdt, frameVars, ret>>
    /\ UNCHANGED extVars

\* a packet was received on an output endpoint (a SETUP packet on a control
\* endpoint when setup holds)
HwTransferRx(i, setup) ==
    /\ enabled
    /\ ~panicked
    /\ out_buf[i].set
    /\ ~ep_reg[i].ctr_rx
    /\ setup => ep_type[i] = "Control"
    /\ ep_reg' = [ep_reg EXCEPT ![i].ctr_rx = TRUE, ![i].setup = setup]
    /\ op' = "hw"
    /\ UNCHANGED <<allocVars, max_endpoint, guard, enabled, panicked, lifeVars,
                   cntr, btable, istr, daddr, bdt, frameVars, ret>>
    /\ UNCHANGED extVars

\* a packet was sent from an input endpoint
HwTransferTx(i) ==
    /\ enabled
    /\ ~panicked
    /\ in_buf[i].set
    /\ ~ep_reg[i].ctr_tx
    /\ ep_reg' = [ep_reg EXCEPT ![i].ctr_tx = TRUE]
    /\ op' = "hw"
    /\ UNCHANGED <<allocVars, max_endpoint, guard, enabled, panicked, lifeVars,
                   cntr, btable, istr, daddr, bdt, frameVars, ret>>
    /\ UNCHANGED extVars

(***************************************************************************)
(* UsbBus::poll (bus.rs 171-238).                                          *)
(***************************************************************************)
\* self.regs.try_lock() succeeds (lines 172-179)
TryLockAlways(g) == TRUE

TryLock(g) == g = "free"

\* the branch of the if chain (lines 183, 198, 202, 206, 235)
PollDecide(s) ==
    IF s.wkup THEN "wkup"
    ELSE IF s.reset THEN "reset"
    ELSE IF s.susp THEN "susp"
    ELSE IF s.ctr THEN "ctr"
    ELSE "none"

\* regs.istr.modify(|_, w| w.<bit>().clear_bit()) (lines 184, 199, 203)
ClearAllBits(r, bit) == IstrZero

ClearBit(r, bit) == [r EXCEPT ![bit] = FALSE]

\* lines 189-197: the data lines read from FNR
WakeupResultDm(rxdp, rxdm) ==
    IF (~rxdp /\ ~rxdm) \/ (rxdp /\ ~rxdm) THEN "Resume" ELSE "Suspend"

WakeupResult(rxdp, rxdm) ==
    IF (~rxdp /\ ~rxdm) \/ (~rxdp /\ rxdm) THEN "Resume" ELSE "Suspend"

\* the PollResult variant and the ISTR write of each branch
BranchResult(k, rxdp, rxdm) ==
    CASE k = "wkup" -> WakeupResult(rxdp, rxdm)
      [] k = "reset" -> "Reset"
      [] k = "susp" -> "Suspend"
      [] k = "ctr" -> "Data"
      [] OTHER -> "None"

BranchIstr(r, k) == IF k \in StatusBits THEN ClearBit(r, k) ELSE r

\* mask |= bit
BitOr(mask, bit) == IF (mask \div bit) % 2 = 1 THEN mask ELSE mask + bit

\* one iteration of the loop (lines 213-231) on register value v
ScanSlotSwapped(v, bit, a) ==
    [ep_out |-> IF v.ctr_tx THEN BitOr(a.ep_out, bit) ELSE a.ep_out,
     ep_setup |-> IF v.ctr_rx /\ v.setup THEN BitOr(a.ep_setup, bit) ELSE a.ep_setup,
     ep_in_complete |-> IF v.ctr_rx THEN BitOr(a.ep_in_complete, bit)
                                    ELSE a.ep_in_complete]

ScanSlot(v, bit, a) ==
    [ep_out |-> IF v.ctr_rx THEN BitOr(a.ep_out, bit) ELSE a.ep_out,
     ep_setup |-> IF v.ctr_rx /\ v.setup THEN BitOr(a.ep_setup, bit) ELSE a.ep_setup,
     ep_in_complete |-> IF v.ctr_tx THEN BitOr(a.ep_in_complete, bit)
                                    ELSE a.ep_in_complete]

\* ep.clear_ctr_tx(cs) when CTR_TX was read as set (lines 223-229)
ScanRegBoth(v) ==
    IF v.ctr_tx THEN [v EXCEPT !.ctr_tx = FALSE, !.ctr_rx = FALSE] ELSE v

ScanReg(v) == IF v.ctr_tx THEN [v EXCEPT !.ctr_tx = FALSE] ELSE v

\* the whole loop over endpoints[0..=max_endpoint] (line 212)
RECURSIVE ScanAll(_, _, _, _)
ScanAll(regs, index, last, a) ==
    IF index > last
    THEN [regs |-> regs, acc |-> a]
    ELSE ScanAll([regs EXCEPT ![index] = ScanReg(regs[index])], index + 1, last,
                 ScanSlot(regs[index], 2 ^ index, a))

\* line 172: the guard is taken; a call made from the main context, step by
\* step, so that interrupts and hardware events fall between its steps
PollBegin ==
    /\ enabled
    /\ ~panicked
    /\ pc = "idle"
    /\ IF TryLock(guard)
       THEN /\ guard' = "held"
            /\ pc' = "read"
            /\ ret' = NoRet
       ELSE /\ ret' = PollResult("None", NoAcc)
            /\ UNCHANGED <<guard, pc>>
    /\ op' = "poll_lock"
    /\ UNCHANGED <<allocVars, max_endpoint, enabled, panicked, lifeVars, regVars,
                   snap, scan_idx, acc, res_kind>>
    /\ UNCHANGED extVars

\* line 181
PollReadIstr ==
    /\ ~panicked
    /\ pc = "read"
    /\ snap' = ReadIstr(istr, ep_reg)
    /\ pc' = "branch"
    /\ op' = "poll_read"
    /\ UNCHANGED <<allocVars, max_endpoint, guard, enabled, panicked, lifeVars, regVars,
                   scan_idx, acc, res_kind, ret>>
    /\ UNCHANGED extVars

\* lines 183-211 and 235-237
PollBranch(rxdp, rxdm) ==
    /\ ~panicked
    /\ pc = "branch"
    /\ LET k == PollDecide(snap)
       IN  /\ istr' = BranchIstr(istr, k)
           /\ res_kind' = BranchResult(k, rxdp, rxdm)
           /\ pc' = IF k = "ctr" THEN "scan" ELSE "ret"
    /\ scan_idx' = 0
    /\ acc' = NoAcc
    /\ op' = "poll_branch"
    /\ UNCHANGED <<allocVars, max_endpoint, guard, enabled, panicked, lifeVars,
                   cntr, btable, daddr, ep_reg, bdt, snap, ret>>
    /\ UNCHANGED extVars

\* lines 212-232, one endpoint
PollScan ==
    /\ ~panicked
    /\ pc = "scan"
    /\ acc' = ScanSlot(ep_reg[scan_idx], 2 ^ scan_idx, acc)
    /\ ep_reg' = [ep_reg EXCEPT ![scan_idx] = ScanReg(ep_reg[scan_idx])]
    /\ scan_idx' = scan_idx + 1
    /\ pc' = IF scan_idx + 1 > max_endpoint THEN "ret" ELSE "scan"
    /\ op' = "poll_scan"
    /\ UNCHANGED <<allocVars, max_endpoint, guard, enabled, panicked, lifeVars,
                   cntr, btable, istr, daddr, bdt, snap, res_kind, ret>>
    /\ UNCHANGED extVars

\* lines 234-238: the result is returned and the guard dropped
PollReturn ==
    /\ ~panicked
    /\ pc = "ret"
    /\ ret' = PollResult(res_kind, IF res_kind = "Data" THEN acc ELSE NoAcc)
    /\ guard' = "free"
    /\ pc' = "idle"
    /\ snap' = NoSnap
    /\ scan_idx' = 0
    /\ acc' = NoAcc
    /\ res_kind' = "None"
    /\ op' = "poll_return"
    /\ UNCHANGED <<allocVars, max_endpoint, enabled, panicked, lifeVars, regVars>>
    /\ UNCHANGED extVars

(***************************************************************************)
(* poll called from an interrupt handler.  The handler runs to completion  *)
(* before the interrupted code resumes, so the call is one step; it may    *)
(* arrive between any two steps of a poll in progress, where it finds the  *)
(* guard held.                                                             *)
(***************************************************************************)
IsrPoll(rxdp, rxdm) ==
    /\ enabled
    /\ ~panicked
    /\ IF TryLock(guard)
       THEN LET k == PollDecide(ReadIstr(istr, ep_reg))
                sc == ScanAll(ep_reg, 0, max_endpoint, NoAcc)
            IN  /\ istr' = BranchIstr(istr, k)
                /\ ep_reg' = IF k = "ctr" THEN sc.regs ELSE ep_reg
                /\ ret' = PollResult(BranchResult(k, rxdp, rxdm),
                                     IF k = "ctr" THEN sc.acc ELSE NoAcc)
       ELSE /\ ret' = PollResult("None", NoAcc)
            /\ UNCHANGED <<istr, ep_reg>>
    /\ op' = "isr_poll"
    /\ UNCHANGED <<allocVars, max_endpoint, guard, enabled, panicked, lifeVars,
                   cntr, btable, daddr, bdt, frameVars>>
    /\ UNCHANGED extVars

(***************************************************************************)
(* Endpoint::configure (endpoint.rs), from the specification: the slot's   *)
(* buffer-descriptor-table entry is written from the descriptors recorded  *)
(* at allocation, the receive status is set to Valid where an output       *)
(* buffer exists and the transmit status to Nak where an input buffer      *)
(* exists.  A slot that was never allocated is left alone.                 *)
(***************************************************************************)
ConfigureRegToggle(v, i) ==
    IF ep_type[i] = NoType
    THEN v
    ELSE [v EXCEPT !.stat_rx = IF ~out_buf[i].set THEN v.stat_rx
                               ELSE IF v.stat_rx = "Valid" THEN "Disabled" ELSE "Valid",
                   !.stat_tx = IF ~in_buf[i].set THEN v.stat_tx
                               ELSE IF v.stat_tx = "Nak" THEN "Disabled" ELSE "Nak"]

ConfigureReg(v, i) ==
    IF ep_type[i] = NoType
    THEN v
    ELSE [v EXCEPT !.stat_rx = IF out_buf[i].set THEN "Valid" ELSE v.stat_rx,
                   !.stat_tx = IF in_buf[i].set THEN "Nak" ELSE v.stat_tx]

ConfigureBdt(b, i) ==
    IF ep_type[i] = NoType
    THEN b
    ELSE [addr_tx |-> IF in_buf[i].set THEN in_buf[i].addr ELSE b.addr_tx,
          addr_rx |-> IF out_buf[i].set THEN out_buf[i].addr ELSE b.addr_rx,
          bl_size |-> IF out_buf[i].set THEN out_buf[i].bl_size ELSE b.bl_size,
          num_block |-> IF out_buf[i].set THEN out_buf[i].num_block ELSE b.num_block]

(***************************************************************************)
(* UsbBus::reset (bus.rs 152-163), called between two polls.               *)
(***************************************************************************)
Reset ==
    /\ enabled
    /\ ~panicked
    /\ pc = "idle"
    /\ IF TryLock(guard)
       THEN /\ istr' = IstrZero
            /\ daddr' = [ef |-> TRUE, add |-> 0]
            /\ ep_reg' = [i \in Slots |-> ConfigureReg(ep_reg[i], i)]
            /\ bdt' = [i \in Slots |-> ConfigureBdt(bdt[i], i)]
            /\ UNCHANGED panicked
       ELSE /\ panicked' = TRUE
            /\ UNCHANGED <<istr, daddr, ep_reg, bdt>>
    /\ ret' = NoRet
    /\ op' = "reset"
    /\ UNCHANGED <<allocVars, max_endpoint, guard, enabled, lifeVars, cntr, btable,
                   frameVars>>
    /\ UNCHANGED extVars

(***************************************************************************)
(* The life of a driver in a device: the device stack allocates the        *)
(* endpoints of its classes and of the control pipe, enables the bus, and  *)
(* then polls.  Scripts are the allocation sequences considered: that of   *)
(* examples/serial.rs (interrupt endpoint 1 and bulk endpoint 2 of the     *)
(* serial class, then the control endpoint 0 of the device).  enable may   *)
(* come after any prefix of a script.                                      *)
(***************************************************************************)
Req(dir, addr, type, size) ==
    [ep_dir |-> dir, ep_addr |-> addr, ep_type |-> type, max_packet_size |-> size]

SerialScript ==
    << Req("In", 1, "Interrupt", 8),
       Req("Out", 2, "Bulk", 64),
       Req("In", 2, "Bulk", 64),
       Req("Out", 0, "Control", 8),
       Req("In", 0, "Control", 8) >>

Scripts == {SerialScript}

InitRun ==
    /\ InitDriver
    /\ script \in Scripts

AllocScripted ==
    /\ script # <<>>
    /\ AllocEp(Head(script))
    /\ script' = Tail(script)

NextRun ==
    \/ AllocScripted
    \/ Enable
    \/ \E bit \in StatusBits : HwStatus(bit)
    \/ \E i \in Slots, setup \in BOOLEAN : HwTransferRx(i, setup)
    \/ \E i \in Slots : HwTransferTx(i)
    \/ PollBegin
    \/ PollReadIstr
    \/ \E rxdp, rxdm \in BOOLEAN : PollBranch(rxdp, rxdm)
    \/ PollScan
    \/ PollReturn
    \/ \E rxdp, rxdm \in BOOLEAN : IsrPoll(rxdp, rxdm)
    \/ Reset

SpecRun == InitRun /\ [][NextRun]_vars

(***************************************************************************)
(* The driver operations other than poll that write registers.  Each body  *)
(* runs inside interrupt::free and is one step.  ctx tells where the call  *)
(* comes from: "main" is the device stack between two polls, "isr" an      *)
(* interrupt handler, which runs whenever interrupts are not masked, also  *)
(* between two steps of a poll in progress.  regs.try_lock().unwrap()      *)
(* panics when the guard is held.                                          *)
(***************************************************************************)
Contexts == {"main", "isr"}

\* the call can be made now from context ctx
Callable(ctx) ==
    /\ enabled
    /\ ~panicked
    /\ ~masked
    /\ ctx = "main" => pc = "idle"

OpName(ctx, name) == IF ctx = "isr" THEN "isr_" \o name ELSE name

\* the part of the driver and device that no call after enable changes
fixedVars == <<allocVars, max_endpoint, enabled, lifeVars, btable, reset_cap>>

\* device addresses the host assigns
DevAddrs == {5}

\* UsbBus::set_device_address (bus.rs 165-169)
SetDeviceAddress(ctx, addr) ==
    /\ Callable(ctx)
    /\ IF TryLock(guard)
       THEN /\ daddr' = [daddr EXCEPT !.add = addr]
            /\ UNCHANGED panicked
       ELSE /\ panicked' = TRUE
            /\ UNCHANGED daddr
    /\ op' = OpName(ctx, "set_device_address")
    /\ UNCHANGED <<fixedVars, guard, cntr, istr, ep_reg, bdt, frameVars, ret,
                   fnr, pkt, reset_pin, masked, rmw, read_buf, call>>

\* UsbBus::suspend (bus.rs 285-291)
Suspend(ctx) ==
    /\ Callable(ctx)
    /\ IF TryLock(guard)
       THEN /\ cntr' = [cntr EXCEPT !.fsusp = TRUE, !.lpmode = TRUE]
            /\ UNCHANGED panicked
       ELSE /\ panicked' = TRUE
            /\ UNCHANGED cntr
    /\ op' = OpName(ctx, "suspend")
    /\ UNCHANGED <<fixedVars, guard, istr, daddr, ep_reg, bdt, frameVars, ret,
                   fnr, pkt, reset_pin, masked, rmw, read_buf, call>>

\* UsbBus::resume (bus.rs 293-299)
Resume(ctx) ==
    /\ Callable(ctx)
    /\ IF TryLock(guard)
       THEN /\ cntr' = [cntr EXCEPT !.fsusp = FALSE, !.lpmode = FALSE]
            /\ UNCHANGED panicked
       ELSE /\ panicked' = TRUE
            /\ UNCHANGED cntr
    /\ op' = OpName(ctx, "resume")
    /\ UNCHANGED <<fixedVars, guard, istr, daddr, ep_reg, bdt, frameVars, ret,
                   fnr, pkt, reset_pin, masked, rmw, read_buf, call>>

\* lines 307-313: CNTR after the power-down bit was recorded, set, and, after
\* the delay, written back
ForceResetCntrNoRestore(c) == [c EXCEPT !.pdwn = TRUE]

ForceResetCntr(c) ==
    LET pdwn == c.pdwn
        c1   == [c EXCEPT !.pdwn = TRUE]
    IN  [c1 EXCEPT !.pdwn = pdwn]

\* UsbBus::force_reset (bus.rs 301-320)
ForceReset(ctx) ==
    /\ Callable(ctx)
    /\ IF ~TryLock(guard)
       THEN /\ panicked' = TRUE
            /\ UNCHANGED <<cntr, reset_pin, call>>
       ELSE /\ UNCHANGED panicked
            /\ IF reset_cap
               THEN /\ cntr' = ForceResetCntr(cntr)
                    /\ reset_pin' = "low"
                    /\ call' = Call("force_reset", 0, "In", 0, "Ok", 0)
               ELSE /\ call' = Call("force_reset", 0, "In", 0, "Unsupported", 0)
                    /\ UNCHANGED <<cntr, reset_pin>>
    /\ op' = OpName(ctx, "force_reset")
    /\ UNCHANGED <<fixedVars, guard, istr, daddr, ep_reg, bdt, frameVars, ret,
                   fnr, pkt, masked, rmw, read_buf>>

\* UsbBus::reset (bus.rs 152-163) called from an interrupt handler
IsrReset ==
    /\ Callable("isr")
    /\ IF TryLock(guard)
       THEN /\ istr' = IstrZero
            /\ daddr' = [ef |-> TRUE, add |-> 0]
            /\ ep_reg' = [i \in Slots |-> ConfigureReg(ep_reg[i], i)]
            /\ bdt' = [i \in Slots |-> ConfigureBdt(bdt[i], i)]
            /\ UNCHANGED panicked
       ELSE /\ panicked' = TRUE
            /\ UNCHANGED <<istr, daddr, ep_reg, bdt>>
    /\ op' = "isr_reset"
    /\ UNCHANGED <<fixedVars, guard, cntr, frameVars, ret,
                   fnr, pkt, reset_pin, masked, rmw, read_buf, call>>

(***************************************************************************)
(* Stall control (bus.rs 256-283).  Endpoint::set_stat_rx / set_stat_tx    *)
(* (endpoint.rs) set the direction's status field to the value given.      *)
(***************************************************************************)
\* the status field of direction dir in register value v
StatOf(v, dir) == IF dir = "In" THEN v.stat_tx ELSE v.stat_rx

\* UsbBus::is_stalled (lines 273-283) on the endpoint registers regs
is_stalled(regs, index, dir) == StatOf(regs[index], dir) = "Stall"

\* the status written by the match of lines 264-269
StallTargetStuck(stalled, dir) == "Stall"

StallTarget(stalled, dir) ==
    CASE stalled /\ dir = "In" -> "Stall"
      [] stalled /\ dir = "Out" -> "Stall"
      [] ~stalled /\ dir = "In" -> "Nak"
      [] ~stalled /\ dir = "Out" -> "Valid"

\* UsbBus::set_stalled (lines 256-271) on the endpoint registers regs
set_stalled(regs, index, dir, stalled) ==
    IF is_stalled(regs, index, dir) = stalled
    THEN regs
    ELSE IF dir = "In"
    THEN [regs EXCEPT ![index].stat_tx = StallTarget(stalled, dir)]
    ELSE [regs EXCEPT ![index].stat_rx = StallTarget(stalled, dir)]

\* a bool as the number recorded in call
BoolVal(b) == IF b THEN 1 ELSE 0

SetStalled(index, dir, stalled) ==
    /\ Callable("main")
    /\ ep_reg' = set_stalled(ep_reg, index, dir, stalled)
    /\ call' = Call("set_stalled", index, dir, BoolVal(stalled), "Ok", 0)
    /\ op' = "set_stalled"
    /\ UNCHANGED <<fixedVars, guard, panicked, cntr, istr, daddr, bdt, frameVars, ret,
                   fnr, pkt, reset_pin, masked, rmw, read_buf>>

IsStalled(index, dir) ==
    /\ Callable("main")
    /\ call' = Call("is_stalled", index, dir, 0, "Ok", BoolVal(is_stalled(ep_reg, index, dir)))
    /\ op' = "is_stalled"
    /\ UNCHANGED <<fixedVars, guard, panicked, regVars, frameVars, ret,
                   fnr, pkt, reset_pin, masked, rmw, read_buf>>

\* UsbBus::enable_reset (bus.rs 60-67), a &mut self method: before enable
EnableReset ==
    /\ ~enabled
    /\ ~panicked
    /\ ~reset_cap
    /\ reset_cap' = TRUE
    /\ op' = "enable_reset"
    /\ UNCHANGED <<allocVars, max_endpoint, enabled, lifeVars, guard, panicked, regVars,
                   frameVars, ret, fnr, pkt, reset_pin, masked, rmw, read_buf, call>>

(***************************************************************************)
(* A device stack that, once the bus is enabled, drives the control pipe:  *)
(* it stalls and un-stalls the endpoints, resets the bus, sets the device  *)
(* address, suspends, resumes and forces a bus reset, in any order, while  *)
(* the peripheral raises status bits.                                      *)
(***************************************************************************)
\* the endpoint addresses the device stack holds
CtlAddrs == {<<0, "In">>, <<0, "Out">>}

InitCtl ==
    /\ InitDriver
    /\ script = SubSeq(SerialScript, 4, 5)

NextCtl ==
    \/ AllocScripted
    \/ script = <<>> /\ EnableReset
    \/ script = <<>> /\ Enable
    \/ \E bit \in StatusBits : HwStatus(bit)
    \/ \E a \in CtlAddrs, stalled \in BOOLEAN : SetStalled(a[1], a[2], stalled)
    \/ \E a \in CtlAddrs : IsStalled(a[1], a[2])
    \/ Reset
    \/ \E addr \in DevAddrs : SetDeviceAddress("main", addr)
    \/ Suspend("main")
    \/ Resume("main")
    \/ ForceReset("main")

SpecCtl == InitCtl /\ [][NextCtl]_vars

(***************************************************************************)
(* Transfer I/O (bus.rs 240-254).  UsbBus::write and UsbBus::read check    *)
(* the direction of the address and hand over to Endpoint::write and       *)
(* Endpoint::read (endpoint.rs), which follow the specification: write     *)
(* copies the data into the transmit buffer and sets the transmit status   *)
(* to Valid unless a transmission is still in progress (status Valid);     *)
(* read copies the received bytes out, as many as the caller's buffer      *)
(* holds, clears the receive-complete flag and sets the receive status to  *)
(* Valid, unless nothing was received.  How the endpoint tells its caller  *)
(* that it is busy or has no data is not visible in bus.rs: the            *)
(* specification says a count of zero, the serial class                    *)
(* (examples/serial.rs 80, 93) is prepared for UsbError::Busy and          *)
(* UsbError::NoData; thr says which of the two a call meets.               *)
(***************************************************************************)
\* the longest packet considered
MaxLen == 2

\* the contents of a packet or of a caller's buffer
Payloads == {<<>>, <<1>>, <<1, 2>>}

\* "Ok": busy and no data are Ok(0); "Err": they are Err(Busy), Err(NoData)
Throttles == {"Ok", "Err"}

\* the result of a read or write: kind, byte count, and the bytes read
IoRes(kind, count, data) == [kind |-> kind, count |-> count, data |-> data]

Min(a, b) == IF a <= b THEN a ELSE b

\* Endpoint::write on register value v and buffers p
EndpointWrite(v, p, data, thr) ==
    IF v.stat_tx = "Valid"
    THEN [v |-> v, p |-> p,
          res |-> IoRes(IF thr = "Ok" THEN "Ok" ELSE "Busy", 0, <<>>)]
    ELSE [v |-> [v EXCEPT !.stat_tx = "Valid"],
          p |-> [p EXCEPT !.tx = data],
          res |-> IoRes("Ok", Len(data), <<>>)]

\* Endpoint::read on register value v and buffers p into a buffer of cap bytes
EndpointRead(v, p, cap, thr) ==
    IF ~v.ctr_rx
    THEN [v |-> v, p |-> p,
          res |-> IoRes(IF thr = "Ok" THEN "Ok" ELSE "NoData", 0, <<>>)]
    ELSE LET count == Min(Len(p.rx), cap)
         IN  [v |-> [v EXCEPT !.ctr_rx = FALSE, !.setup = FALSE, !.stat_rx = "Valid"],
              p |-> p,
              res |-> IoRes("Ok", count, SubSeq(p.rx, 1, count))]

\* ep_addr.is_in() (line 241), ep_addr.is_out() (line 249)
DirAny(dir, wanted) == TRUE

DirIs(dir, wanted) == dir = wanted

\* UsbBus::write (lines 240-246)
write(v, p, dir, data, thr) ==
    IF ~DirIs(dir, "In")
    THEN [v |-> v, p |-> p, res |-> IoRes("InvalidEndpoint", 0, <<>>)]
    ELSE EndpointWrite(v, p, data, thr)

\* UsbBus::read (lines 248-254)
read(v, p, dir, cap, thr) ==
    IF ~DirIs(dir, "Out")
    THEN [v |-> v, p |-> p, res |-> IoRes("InvalidEndpoint", 0, <<>>)]
    ELSE EndpointRead(v, p, cap, thr)

BusWrite(index, dir, data, thr) ==
    /\ Callable("main")
    /\ LET r == write(ep_reg[index], pkt[index], dir, data, thr)
       IN  /\ ep_reg' = [ep_reg EXCEPT ![index] = r.v]
           /\ pkt' = [pkt EXCEPT ![index] = r.p]
           /\ call' = Call("write", index, dir, Len(data), r.res.kind, r.res.count)
    /\ op' = "write"
    /\ UNCHANGED <<fixedVars, guard, panicked, cntr, istr, daddr, bdt, frameVars, ret,
                   fnr, reset_pin, masked, rmw, read_buf>>

BusRead(index, dir, cap, thr) ==
    /\ Callable("main")
    /\ LET r == read(ep_reg[index], pkt[index], dir, cap, thr)
       IN  /\ ep_reg' = [ep_reg EXCEPT ![index] = r.v]
           /\ pkt' = [pkt EXCEPT ![index] = r.p]
           /\ call' = Call("read", index, dir, cap, r.res.kind, r.res.count)
    /\ op' = "read"
    /\ UNCHANGED <<fixedVars, guard, panicked, cntr, istr, daddr, bdt, frameVars, ret,
                   fnr, reset_pin, masked, rmw, read_buf>>

(***************************************************************************)
(* SerialPort of examples/serial.rs, the consumer of read and write: its   *)
(* bulk endpoints are those of slot 2 (lines 64, 211).                     *)
(***************************************************************************)
SerialEp == 2

\* the match of lines 78-82: Err(UsbError::Busy) => Ok(0)
SerialWriteResultAsIs(res) == res

SerialWriteResult(res) == IF res.kind = "Busy" THEN IoRes("Ok", 0, <<>>) ELSE res

\* SerialPort::write (lines 77-83)
SerialWrite(data, thr) ==
    /\ Callable("main")
    /\ LET r   == write(ep_reg[SerialEp], pkt[SerialEp], "In", data, thr)
           res == SerialWriteResult(r.res)
       IN  /\ ep_reg' = [ep_reg EXCEPT ![SerialEp] = r.v]
           /\ pkt' = [pkt EXCEPT ![SerialEp] = r.p]
           /\ call' = Call("serial_write", SerialEp, "In", Len(data), res.kind, res.count)
    /\ op' = "serial_write"
    /\ UNCHANGED <<fixedVars, guard, panicked, cntr, istr, daddr, bdt, frameVars, ret,
                   fnr, reset_pin, masked, rmw, read_buf>>

\* SerialPort::read (lines 85-110) with a caller's buffer of cap bytes: the
\* endpoint is read into read_buf (MaxLen stands for its 64 bytes) when that
\* is empty, then up to cap bytes are handed out
SerialRead(cap, thr) ==
    /\ Callable("main")
    /\ LET r == IF read_buf = <<>>
                THEN read(ep_reg[SerialEp], pkt[SerialEp], "Out", MaxLen, thr)
                ELSE [v |-> ep_reg[SerialEp], p |-> pkt[SerialEp],
                      res |-> IoRes("Ok", Len(read_buf), read_buf)]
           count == Min(cap, r.res.count)
       IN  /\ ep_reg' = [ep_reg EXCEPT ![SerialEp] = r.v]
           /\ pkt' = [pkt EXCEPT ![SerialEp] = r.p]
           /\ IF r.res.kind = "NoData"
              THEN /\ call' = Call("serial_read", SerialEp, "Out", cap, "Ok", 0)
                   /\ UNCHANGED read_buf
              ELSE IF r.res.kind # "Ok"
              THEN /\ call' = Call("serial_read", SerialEp, "Out", cap, r.res.kind, 0)
                   /\ UNCHANGED read_buf
              ELSE /\ call' = Call("serial_read", SerialEp, "Out", cap, "Ok", count)
                   /\ read_buf' = SubSeq(r.res.data, count + 1, Len(r.res.data))
    /\ op' = "serial_read"
    /\ UNCHANGED <<fixedVars, guard, panicked, cntr, istr, daddr, bdt, frameVars, ret,
                   fnr, reset_pin, masked, rmw>>

(***************************************************************************)
(* The host side of a transfer: an OUT packet is taken by an endpoint      *)
(* whose receive status is Valid, an IN token is answered by one whose     *)
(* transmit status is Valid; the peripheral sets the completion flag and   *)
(* puts the status back to Nak.                                            *)
(***************************************************************************)
HwOut(i, data) ==
    /\ enabled
    /\ ~panicked
    /\ out_buf[i].set
    /\ ep_reg[i].stat_rx = "Valid"
    /\ ep_reg' = [ep_reg EXCEPT ![i].ctr_rx = TRUE, ![i].stat_rx = "Nak"]
    /\ pkt' = [pkt EXCEPT ![i].rx = data]
    /\ op' = "hw"
    /\ UNCHANGED <<fixedVars, guard, panicked, cntr, istr, daddr, bdt, frameVars, ret,
                   fnr, reset_pin, masked, rmw, read_buf, call>>

HwIn(i) ==
    /\ enabled
    /\ ~panicked
    /\ in_buf[i].set
    /\ ep_reg[i].stat_tx = "Valid"
    /\ ep_reg' = [ep_reg EXCEPT ![i].ctr_tx = TRUE, ![i].stat_tx = "Nak"]
    /\ op' = "hw"
    /\ UNCHANGED <<fixedVars, guard, panicked, cntr, istr, daddr, bdt, frameVars, ret,
                   fnr, pkt, reset_pin, masked, rmw, read_buf, call>>

(***************************************************************************)
(* A device that moves data over the serial class's bulk endpoints: the    *)
(* bus is enabled and reset, the host sends and fetches packets, the       *)
(* device polls, reads and writes, through the serial port and directly.   *)
(***************************************************************************)
\* the endpoint addresses of the serial port's data interface
IoAddrs == {<<SerialEp, "In">>, <<SerialEp, "Out">>}

InitIo ==
    /\ InitDriver
    /\ script = SubSeq(SerialScript, 2, 3)

NextIo ==
    \/ AllocScripted
    \/ script = <<>> /\ Enable
    \/ Reset
    \/ \E data \in Payloads : HwOut(SerialEp, data)
    \/ HwIn(SerialEp)
    \/ IsrPoll(fnr.rxdp, fnr.rxdm)
    \/ \E a \in IoAddrs, data \in Payloads, thr \in Throttles :
          BusWrite(a[1], a[2], data, thr)
    \/ \E a \in IoAddrs, cap \in 1 .. MaxLen, thr \in Throttles :
          BusRead(a[1], a[2], cap, thr)
    \/ \E data \in Payloads, thr \in Throttles : SerialWrite(data, thr)
    \/ \E cap \in 1 .. MaxLen, thr \in Throttles : SerialRead(cap, thr)

SpecIo == InitIo /\ [][NextIo]_vars

(***************************************************************************)
(* UsbBus::poll (bus.rs 171-238) in the main context at the grain of       *)
(* register accesses: regs.istr.modify (lines 184, 199, 203) is a read of  *)
(* ISTR followed by a write of the value read with one bit cleared, and    *)
(* is not inside interrupt::free; the clearing of CTR_TX (lines 226-228)   *)
(* is.  With respect to the peripheral a register access, modify           *)
(* included, is one step: hardware events do not fall between the read and *)
(* the write.                                                              *)
(***************************************************************************)
\* the states of a poll between the read and the write of a modify
RmwWindow == {"modify", "clear"}

\* the data lines change
HwLines(rxdp, rxdm) ==
    /\ enabled
    /\ ~panicked
    /\ fnr # [rxdp |-> rxdp, rxdm |-> rxdm]
    /\ fnr' = [rxdp |-> rxdp, rxdm |-> rxdm]
    /\ op' = "hw"
    /\ UNCHANGED <<fixedVars, guard, panicked, cntr, istr, daddr, ep_reg, bdt, frameVars,
                   ret, pkt, reset_pin, masked, rmw, read_buf, call>>

\* lines 183, 198, 202, 206, 235: the branch is chosen; for a status bit
\* modify reads ISTR
PollModifyRead ==
    /\ ~panicked
    /\ pc = "branch"
    /\ LET k == PollDecide(snap)
       IN  /\ rmw' = IF k \in StatusBits THEN istr ELSE rmw
           /\ pc' = IF k \in StatusBits THEN "modify"
                    ELSE IF k = "ctr" THEN "scan" ELSE "ret"
           /\ res_kind' = BranchResult(IF k = "wkup" THEN "none" ELSE k, FALSE, FALSE)
    /\ scan_idx' = 0
    /\ acc' = NoAcc
    /\ op' = "poll_modify_read"
    /\ UNCHANGED <<fixedVars, guard, panicked, regVars, snap, ret,
                   fnr, pkt, reset_pin, masked, read_buf, call>>

\* modify writes ISTR
PollModifyWrite ==
    /\ ~panicked
    /\ pc = "modify"
    /\ LET k == PollDecide(snap)
       IN  /\ istr' = ClearBit(rmw, k)
           /\ pc' = IF k = "wkup" THEN "fnr" ELSE "ret"
    /\ rmw' = IstrZero
    /\ op' = "poll_modify_write"
    /\ UNCHANGED <<fixedVars, guard, panicked, cntr, daddr, ep_reg, bdt,
                   snap, scan_idx, acc, res_kind, ret,
                   fnr, pkt, reset_pin, masked, read_buf, call>>

\* lines 186-197: the data lines are read from FNR
PollReadFnr ==
    /\ ~panicked
    /\ pc = "fnr"
    /\ res_kind' = WakeupResult(fnr.rxdp, fnr.rxdm)
    /\ pc' = "ret"
    /\ op' = "poll_fnr"
    /\ UNCHANGED <<fixedVars, guard, panicked, regVars, snap, scan_idx, acc, ret,
                   fnr, pkt, reset_pin, masked, rmw, read_buf, call>>

\* lines 213-226: the slot's register is read and the masks updated; when
\* CTR_TX was read as set, interrupt::free is entered
PollScanRead ==
    /\ ~panicked
    /\ pc = "scan"
    /\ acc' = ScanSlot(ep_reg[scan_idx], 2 ^ scan_idx, acc)
    /\ IF ep_reg[scan_idx].ctr_tx
       THEN /\ masked' = TRUE
            /\ pc' = "clear"
            /\ UNCHANGED scan_idx
       ELSE /\ scan_idx' = scan_idx + 1
            /\ pc' = IF scan_idx + 1 > max_endpoint THEN "ret" ELSE "scan"
            /\ UNCHANGED masked
    /\ op' = "poll_scan_read"
    /\ UNCHANGED <<fixedVars, guard, panicked, regVars, snap, res_kind, ret,
                   fnr, pkt, reset_pin, rmw, read_buf, call>>

\* lines 227-228: CTR_TX is cleared and interrupt::free left
PollScanClear ==
    /\ ~panicked
    /\ pc = "clear"
    /\ ep_reg' = [ep_reg EXCEPT ![scan_idx] = ScanReg(ep_reg[scan_idx])]
    /\ masked' = FALSE
    /\ scan_idx' = scan_idx + 1
    /\ pc' = IF scan_idx + 1 > max_endpoint THEN "ret" ELSE "scan"
    /\ op' = "poll_scan_clear"
    /\ UNCHANGED <<fixedVars, guard, panicked, cntr, istr, daddr, bdt, snap, acc,
                   res_kind, ret, fnr, pkt, reset_pin, rmw, read_buf, call>>

(***************************************************************************)
(* A device whose interrupt handler calls into the driver while the main   *)
(* loop polls.  The endpoints are those of the control pipe.               *)
(***************************************************************************)
ControlScript == SubSeq(SerialScript, 4, 5)

InitIsr ==
    /\ InitDriver
    /\ script = ControlScript

\* the calls of an interrupt handler: poll at any time, the other
\* operations while a poll of the main loop is in progress (made when no
\* poll is in progress they are what they are in the main context)
IsrCall ==
    \/ ~masked /\ IsrPoll(fnr.rxdp, fnr.rxdm)
    \/ pc # "idle" /\ IsrReset
    \/ pc # "idle" /\ \E a \in DevAddrs : SetDeviceAddress("isr", a)
    \/ pc # "idle" /\ Suspend("isr")
    \/ pc # "idle" /\ Resume("isr")
    \/ pc # "idle" /\ ForceReset("isr")

\* what the peripheral does, outside the windows of register accesses
HwEvent ==
    /\ pc \notin RmwWindow
    /\ \/ \E bit \in StatusBits : HwStatus(bit)
       \/ \E i \in Slots, setup \in BOOLEAN : HwTransferRx(i, setup)
       \/ \E i \in Slots : HwTransferTx(i)
       \/ \E rxdp, rxdm \in BOOLEAN : HwLines(rxdp, rxdm)

NextIsr ==
    \/ AllocScripted
    \/ script = <<>> /\ Enable
    \/ HwEvent
    \/ PollBegin
    \/ PollReadIstr
    \/ PollModifyRead
    \/ PollModifyWrite
    \/ PollReadFnr
    \/ PollScanRead
    \/ PollScanClear
    \/ PollReturn
    \/ IsrCall

SpecIsr == InitIsr /\ [][NextIsr]_vars

(***************************************************************************)
(* Properties of allocation (specification Spec).                          *)
(***************************************************************************)
\* the (slot, direction) pairs that have a descriptor
Allocated ==
    {k \in Slots \X Dirs : IF k[2] = "In" THEN in_buf[k[1]].set ELSE out_buf[k[1]].set}

BufOf(k) == IF k[2] = "In" THEN in_buf[k[1]] ELSE out_buf[k[1]]

Disjoint(b1, b2) == b1.addr + b1.size <= b2.addr \/ b2.addr + b2.size <= b1.addr

\* a step that is one alloc_ep call
IsAllocStep == allocs' = allocs + 1

\* C1: the packet-memory ranges [addr, addr+size) of all descriptors recorded
\* by successful allocations are pairwise disjoint, and each lies between
\* MEM_START and MEM_SIZE.
C1_BuffersDisjointInMemory ==
    /\ \A k1, k2 \in Allocated : k1 # k2 => Disjoint(BufOf(k1), BufOf(k2))
    /\ \A k \in Allocated :
          /\ MEM_START <= BufOf(k).addr
          /\ BufOf(k).addr + BufOf(k).size <= MEM_SIZE
          /\ BufOf(k).size > 0

\* allocations in both directions succeeded, the second after the first
C1_Witness ==
    /\ Cardinality(Allocated) >= 2
    /\ \E k1, k2 \in Allocated :
          k1[2] = "In" /\ k2[2] = "Out" /\ BufOf(k1).addr > MEM_START

\* C2 (as claimed): every alloc_ep request returns an address, SizeOverflow
\* or EndpointOverflow; the allocator's evenness assertion never fails.
C2_AllocNeverAborts ==
    /\ ~panicked
    /\ alloc_res.kind \in {"NoCall", "Ok", "SizeOverflow", "EndpointOverflow"}

\* the size alloc_ep hands to the allocator for a request
C3_SizeOf(req) ==
    IF req.ep_dir = "In"
    THEN req.max_packet_size
    ELSE calculate_count_rx(req.max_packet_size).size

C3_AllocStep ==
    LET req  == alloc_req'
        res  == alloc_res'
        size == C3_SizeOf(req)
    IN  /\ res.kind = "Ok" =>
              /\ res.addr = next_ep_mem
              /\ next_ep_mem' = next_ep_mem + size
              /\ next_ep_mem' <= MEM_SIZE
        /\ res.kind = "SizeOverflow" =>
              /\ next_ep_mem' = next_ep_mem
              /\ in_buf' = in_buf /\ out_buf' = out_buf
              /\ \/ next_ep_mem + size > MEM_SIZE
                 \/ req.ep_dir = "Out" /\ ~calculate_count_rx(req.max_packet_size).ok
        /\ res.kind \in {"EndpointOverflow", "Panic"} => next_ep_mem' = next_ep_mem

\* C3: the cursor starts at MEM_START, never decreases and never exceeds
\* MEM_SIZE; a successful allocation returns the previous cursor and advances
\* it by exactly the allocated size (also when it ends exactly at MEM_SIZE);
\* SizeOverflow is returned only when the allocation would pass MEM_SIZE (or
\* the receive size cannot be encoded) and leaves cursor and descriptors as
\* they were.
C3_CursorMonotonic ==
    /\ next_ep_mem = MEM_START
    /\ [](MEM_START <= next_ep_mem /\ next_ep_mem <= MEM_SIZE)
    /\ [][/\ next_ep_mem' >= next_ep_mem
          /\ IsAllocStep => C3_AllocStep]_vars

\* an allocation ended exactly at capacity, and the next one overflowed
C3_Witness ==
    /\ next_ep_mem = MEM_SIZE
    /\ alloc_res.kind = "SizeOverflow"
    /\ alloc_req.ep_dir = "In"
    /\ Allocated # {}

\* slots a request may be given (bus.rs line 92)
C4_Candidates(req) ==
    IF req.ep_addr = NoAddr THEN 1 .. (NUM_ENDPOINTS - 1) ELSE {req.ep_addr}

\* the candidate slots that can take the request, in the state before the call
C4_Qualifying(req) ==
    {i \in C4_Candidates(req) :
        /\ ep_type[i] = NoType \/ ep_type[i] = req.ep_type
        /\ IF req.ep_dir = "In" THEN ~in_buf[i].set ELSE ~out_buf[i].set}

C4_Lowest(S) == CHOOSE i \in S : \A j \in S : i <= j

C4_AllocStep ==
    LET req == alloc_req'
        res == alloc_res'
        Q   == C4_Qualifying(req)
    IN  /\ res.kind = "EndpointOverflow" <=> Q = {}
        /\ Q # {} =>
              /\ res.index = C4_Lowest(Q)
              /\ res.dir = req.ep_dir
              /\ req.ep_addr = NoAddr => res.index # 0
              /\ res.kind = "Ok" =>
                    /\ res.addr = next_ep_mem
                    /\ Allocated' = Allocated \cup {<<res.index, req.ep_dir>>}
              \* no other slot is touched
              /\ \A i \in Slots \ {res.index} :
                    /\ ep_type'[i] = ep_type[i]
                    /\ in_buf'[i] = in_buf[i]
                    /\ out_buf'[i] = out_buf[i]
        /\ Q = {} => UNCHANGED allocVars

\* C4: alloc_ep is first-fit: the slot it serves is the lowest-index
\* candidate (slots 1..NUM_ENDPOINTS-1 without an explicit address, the named
\* slot with one) whose type is unset or the requested one and whose
\* requested direction has no descriptor; it returns EndpointOverflow exactly
\* when no candidate qualifies; address and offset are determined by the
\* state and the request alone.
C4_FirstFit == [][IsAllocStep => C4_AllocStep]_vars

\* a request without an address skipped slot 1 and was given slot 2
C4_Witness ==
    /\ alloc_req.ep_addr = NoAddr
    /\ alloc_res.kind = "Ok"
    /\ alloc_res.index = 2
    /\ ep_type[1] # NoType

C5_AllocStep ==
    LET req == alloc_req'
        res == alloc_res'
    IN  /\ \A i \in C4_Candidates(req) :
              (ep_type[i] # NoType /\ ep_type[i] # req.ep_type) =>
                  /\ in_buf'[i] = in_buf[i]
                  /\ out_buf'[i] = out_buf[i]
                  /\ ~(res.kind = "Ok" /\ res.index = i)
        /\ (/\ req.ep_addr # NoAddr
            /\ ep_type[req.ep_addr] # NoType
            /\ ep_type[req.ep_addr] # req.ep_type) =>
                  /\ res.kind = "EndpointOverflow"
                  /\ UNCHANGED allocVars

\* C5: a slot's endpoint type, once set, never changes; a request that meets
\* a slot whose type is set to another type leaves the slot's type and
\* descriptors as they are, and returns EndpointOverflow when the slot was
\* named explicitly.
C5_TypeNeverChanges ==
    [][/\ \A i \in Slots : ep_type[i] # NoType => ep_type'[i] = ep_type[i]
       /\ IsAllocStep => C5_AllocStep]_vars

\* an explicit request met a slot of another type and was refused
C5_Witness ==
    /\ alloc_req.ep_addr # NoAddr
    /\ alloc_res.kind = "EndpointOverflow"
    /\ ep_type[alloc_req.ep_addr] \notin {NoType, alloc_req.ep_type}
    /\ Allocated # {}

C6_AllocStep ==
    LET req == alloc_req'
        res == alloc_res'
    IN  (/\ req.ep_addr # NoAddr
         /\ IF req.ep_dir = "In" THEN in_buf[req.ep_addr].set
                                 ELSE out_buf[req.ep_addr].set) =>
              /\ res.kind = "EndpointOverflow"
              /\ next_ep_mem' = next_ep_mem

\* C6: a direction's descriptor, once set, is never overwritten; a second
\* alloc_ep for the same direction with the slot named explicitly returns
\* EndpointOverflow and consumes no packet memory.
C6_DescriptorNeverChanges ==
    [][/\ \A i \in Slots :
             /\ in_buf[i].set => in_buf'[i] = in_buf[i]
             /\ out_buf[i].set => out_buf'[i] = out_buf[i]
       /\ IsAllocStep => C6_AllocStep]_vars

\* a second request for the same slot, direction and type was refused
C6_Witness ==
    /\ alloc_req.ep_addr # NoAddr
    /\ alloc_res.kind = "EndpointOverflow"
    /\ ep_type[alloc_req.ep_addr] = alloc_req.ep_type
    /\ alloc_req.ep_dir = "In"
    /\ in_buf[alloc_req.ep_addr].set

(***************************************************************************)
(* Properties of enable and poll (specification SpecRun).                  *)
(***************************************************************************)
AllocatedSlots == {k[1] : k \in Allocated}

C7_Highest ==
    IF AllocatedSlots = {}
    THEN 0
    ELSE CHOOSE i \in AllocatedSlots : \A j \in AllocatedSlots : j <= i

\* C7: allocation only happens before enable; once enable has been called
\* max_endpoint no longer changes and is the highest slot index with an
\* input or output descriptor (0 when there is none), so every allocated
\* slot lies in poll's scan range 0..max_endpoint.
C7_MaxEndpointFixed ==
    /\ [](enabled =>
            /\ max_endpoint = C7_Highest
            /\ \A i \in AllocatedSlots : i <= max_endpoint)
    /\ [][enabled =>
            /\ enabled'
            /\ max_endpoint' = max_endpoint
            /\ UNCHANGED allocVars]_vars

\* slots 1 and 2 allocated, slot 0 not: max_endpoint is 2 and a poll has
\* scanned and returned since
C7_Witness ==
    /\ enabled
    /\ AllocatedSlots = {1, 2}
    /\ max_endpoint = 2
    /\ op = "poll_return"
    /\ ret.kind = "Data"

\* the conditions poll looks at, highest priority first
C8_Priority == <<"wkup", "reset", "susp", "ctr">>

\* the condition a poll that read s reports: the first of C8_Priority set
\* in s, "none" when there is none
C8_Reported(s) ==
    IF \E n \in 1 .. 4 : s[C8_Priority[n]]
    THEN C8_Priority[CHOOSE n \in 1 .. 4 :
                        /\ s[C8_Priority[n]]
                        /\ \A m \in 1 .. (n - 1) : ~s[C8_Priority[m]]]
    ELSE "none"

\* the results that report a condition
C8_Results(c) ==
    CASE c = "wkup" -> {"Resume", "Suspend"}
      [] c = "reset" -> {"Reset"}
      [] c = "susp" -> {"Suspend"}
      [] c = "ctr" -> {"Data"}
      [] OTHER -> {"None"}

\* a poll that read s and reports result kind k, taking the registers from
\* (r, regs) to (r2, regs2): the result follows the priority, the reported
\* status bit is the only one written, every other condition of s stands
C8_PollEffect(s, k, r, regs, r2, regs2) ==
    LET c == C8_Reported(s)
    IN  /\ k \in C8_Results(c)
        /\ \A b \in StatusBits : b # c => r2[b] = r[b]
        /\ c \in StatusBits => ~r2[c]
        /\ c # "ctr" => regs2 = regs

\* C8: a poll that takes the guard reports the one outcome that the fixed
\* priority (wakeup, reset, suspend, correct transfer, else None) picks from
\* the status bits read at entry, and clears only the status bit it reports:
\* every other bit that was set at entry is still set when the call returns.
C8_OneOutcomeByPriority ==
    [][/\ (pc = "branch" /\ op' = "poll_branch") =>
              C8_PollEffect(snap, res_kind', istr, ep_reg, istr', ep_reg')
       /\ (pc = "scan" /\ op' = "poll_scan") => istr' = istr
       /\ (pc = "ret" /\ op' = "poll_return") =>
              /\ ret'.kind \in C8_Results(C8_Reported(snap))
              /\ \A b \in StatusBits : (snap[b] /\ b # C8_Reported(snap)) => istr'[b]
              /\ (snap.ctr /\ C8_Reported(snap) # "ctr") => IstrCtr(ep_reg')
       /\ (op' = "isr_poll" /\ guard = "free") =>
              C8_PollEffect(ReadIstr(istr, ep_reg), ret'.kind, istr, ep_reg, istr', ep_reg')
      ]_vars

\* a poll returned Reset while suspend and correct transfer, pending at its
\* entry, are still pending
C8_Witness ==
    /\ op = "poll_return"
    /\ ret.kind = "Reset"
    /\ istr.susp
    /\ IstrCtr(ep_reg)
    /\ ~istr.reset

\* the bits of a mask
C9_InMask(i, mask) == (mask \div (2 ^ i)) % 2 = 1

\* the step is a poll (from either context) that reports status bit b
C9_Reports(b) ==
    \/ /\ pc = "branch" /\ op' = "poll_branch"
       /\ C8_Reported(snap) = b
       /\ res_kind' \in C8_Results(b)
    \/ /\ op' = "isr_poll" /\ guard = "free"
       /\ C8_Reported(ReadIstr(istr, ep_reg)) = b
       /\ ret'.kind \in C8_Results(b)

\* the step is a poll that reports transmit completion on slot i
C9_ReportsTx(i) ==
    \/ pc = "scan" /\ op' = "poll_scan" /\ C9_InMask(i, acc'.ep_in_complete)
    \/ op' = "isr_poll" /\ ret'.kind = "Data" /\ C9_InMask(i, ret'.ep_in_complete)

\* the step is a reset() made in answer to a poll that returned Reset
C9_ResetAnswer == op' = "reset" /\ ret.kind = "Reset"

C10_NestedPollIsNoOp ==
    /\ [](guard = "free" <=> pc = "idle")
    /\ [][(op' = "isr_poll" /\ pc # "idle") =>
             /\ ret' = PollResult("None", NoAcc)
             /\ UNCHANGED <<regVars, frameVars, guard, allocVars, max_endpoint,
                            enabled, panicked>>
         ]_vars

\* a nested poll returned None while the poll in progress had read a
\* pending bus reset that is still pending
C10_Witness ==
    /\ op = "isr_poll"
    /\ pc = "branch"
    /\ guard = "held"
    /\ ret.kind = "None"
    /\ snap.reset /\ ~snap.wkup
    /\ istr.reset

\* what a scan of slot i, whose register read v, adds to the masks a (giving
\* a2) and does to the register (giving v2)
C11_SlotEffect(i, v, a, a2, v2) ==
    /\ C9_InMask(i, a2.ep_out) <=> v.ctr_rx
    /\ C9_InMask(i, a2.ep_in_complete) <=> v.ctr_tx
    /\ C9_InMask(i, a2.ep_setup) <=> (v.ctr_rx /\ v.setup)
    /\ ~v2.ctr_tx
    /\ v2.ctr_rx = v.ctr_rx
    /\ v2.setup = v.setup

\* masks a report nothing for the slots of S
C11_NoBits(a, S) ==
    \A j \in S :
        /\ ~C9_InMask(j, a.ep_out)
        /\ ~C9_InMask(j, a.ep_in_complete)
        /\ ~C9_InMask(j, a.ep_setup)

\* C11: when poll reports Data, for every slot i in 0..max_endpoint bit i of
\* the receive mask is set iff the slot's receive-complete flag was set when
\* the slot was read, bit i of the transmit-complete mask iff its
\* transmit-complete flag was, bit i of the setup mask iff receive-complete
\* and setup both were; no bit above max_endpoint is set and the setup mask
\* is a subset of the receive mask; every reported transmit-complete flag is
\* cleared and every receive-complete flag is left as it was.
C11_DataMasks ==
    /\ [](pc = "scan" => C11_NoBits(acc, scan_idx .. (NUM_ENDPOINTS - 1)))
    /\ [][/\ (pc = "scan" /\ op' = "poll_scan") =>
                /\ scan_idx <= max_endpoint
                /\ C11_SlotEffect(scan_idx, ep_reg[scan_idx], acc', acc', ep_reg'[scan_idx])
                /\ \A j \in Slots \ {scan_idx} :
                      /\ ep_reg'[j] = ep_reg[j]
                      /\ C9_InMask(j, acc'.ep_out) <=> C9_InMask(j, acc.ep_out)
                      /\ C9_InMask(j, acc'.ep_in_complete) <=> C9_InMask(j, acc.ep_in_complete)
                      /\ C9_InMask(j, acc'.ep_setup) <=> C9_InMask(j, acc.ep_setup)
          /\ (pc = "ret" /\ op' = "poll_return" /\ ret'.kind = "Data") =>
                /\ scan_idx = max_endpoint + 1
                /\ ret' = PollResult("Data", acc)
                /\ C11_NoBits(ret', (max_endpoint + 1) .. (NUM_ENDPOINTS - 1))
                /\ \A i \in Slots : C9_InMask(i, ret'.ep_setup) => C9_InMask(i, ret'.ep_out)
          /\ (op' = "isr_poll" /\ ret'.kind = "Data") =>
                /\ \A i \in 0 .. max_endpoint :
                      C11_SlotEffect(i, ep_reg[i], ret', ret', ep_reg'[i])
                /\ C11_NoBits(ret', (max_endpoint + 1) .. (NUM_ENDPOINTS - 1))
                /\ \A i \in (max_endpoint + 1) .. (NUM_ENDPOINTS - 1) : ep_reg'[i] = ep_reg[i]
                /\ \A i \in Slots : C9_InMask(i, ret'.ep_setup) => C9_InMask(i, ret'.ep_out)
                /\ istr' = istr
         ]_vars

\* a poll reported a setup packet on slot 0, a received packet on slot 2 and
\* completed transmissions on slots 1 and 2; the transmit-complete flags are
\* cleared, the receive-complete flags stand
C11_Witness ==
    /\ op = "isr_poll"
    /\ ret = [kind |-> "Data", ep_out |-> 5, ep_in_complete |-> 6, ep_setup |-> 1]
    /\ max_endpoint = 2
    /\ \A i \in Slots : ~ep_reg[i].ctr_tx
    /\ ep_reg[0].ctr_rx /\ ep_reg[2].ctr_rx

(***************************************************************************)
(* Properties of transfer I/O (specification SpecIo).                      *)
(***************************************************************************)
\* a call returned a zero-length success and left endpoint registers and
\* packet memory as they were
C13_ZeroLengthSuccess ==
    /\ call'.kind = "Ok"
    /\ call'.val = 0
    /\ UNCHANGED <<regVars, pkt>>

C14_InvalidEndpoint ==
    [][((op' = "write" /\ call'.dir = "Out") \/ (op' = "read" /\ call'.dir = "In")) =>
          /\ call'.kind = "InvalidEndpoint"
          /\ UNCHANGED <<regVars, pkt, read_buf, guard, panicked>>
      ]_vars

\* a write to the output address of an endpoint that is ready to receive
\* was refused
C14_Witness ==
    /\ op = "write"
    /\ call.dir = "Out"
    /\ call.arg = 2
    /\ call.kind = "InvalidEndpoint"
    /\ ep_reg[call.index].stat_rx = "Valid"
    /\ ep_reg[call.index].stat_tx = "Nak"

(***************************************************************************)
(* Properties of stall control, reset and forced reset (specification      *)
(* SpecCtl).                                                               *)
(***************************************************************************)
\* C15: for either direction of an endpoint and whatever the direction's
\* status was, after set_stalled(addr, true) the endpoint is stalled and
\* after set_stalled(addr, false) it is not, and an is_stalled(addr) that
\* follows returns just that; is_stalled changes no register.
C15_StallRoundTrip ==
    [][/\ op' = "set_stalled" =>
             ((StatOf(ep_reg'[call'.index], call'.dir) = "Stall") <=> (call'.arg = 1))
       /\ op' = "is_stalled" =>
             /\ (call'.val = 1) <=> (StatOf(ep_reg[call'.index], call'.dir) = "Stall")
             /\ UNCHANGED regVars
       /\ (/\ op = "set_stalled" /\ op' = "is_stalled"
           /\ call'.index = call.index /\ call'.dir = call.dir) =>
             call'.val = call.arg
      ]_vars

\* is_stalled returned false for an output endpoint that, never configured
\* by a reset, was stalled and un-stalled again
C15_Witness ==
    /\ op = "is_stalled"
    /\ call.dir = "Out"
    /\ call.val = 0
    /\ StatOf(ep_reg[call.index], "Out") = "Valid"
    /\ ~daddr.ef

\* C16 (as claimed): set_stalled(addr, false) on a stalled endpoint sets the
\* direction's status to Nak, for output as well as input addresses, never
\* to Valid; set_stalled with the state the endpoint already has changes no
\* status bits.
C16_UnstallSetsNak ==
    [][op' = "set_stalled" =>
          LET before == StatOf(ep_reg[call'.index], call'.dir)
              after  == StatOf(ep_reg'[call'.index], call'.dir)
          IN  /\ (call'.arg = 0 /\ before = "Stall") => after = "Nak"
              /\ ((before = "Stall") <=> (call'.arg = 1)) => ep_reg' = ep_reg
      ]_vars

\* the endpoint registers and descriptor-table entries hold what the
\* allocation recorded
C17_Configured(regs, table) ==
    \A i \in Slots :
        /\ out_buf[i].set =>
              /\ regs[i].stat_rx = "Valid"
              /\ table[i].addr_rx = out_buf[i].addr
              /\ table[i].bl_size = out_buf[i].bl_size
              /\ table[i].num_block = out_buf[i].num_block
        /\ in_buf[i].set =>
              /\ regs[i].stat_tx = "Nak"
              /\ table[i].addr_tx = in_buf[i].addr

\* C17: reset(), from whatever device address, endpoint statuses and pending
\* status bits, leaves all interrupt status cleared, device address 0 with
\* address matching enabled, and every slot's descriptors and statuses as
\* recorded at allocation; a second reset() right after the first changes
\* no register.
C17_ResetIdempotent ==
    [][op' = "reset" =>
          /\ ~panicked'
          /\ istr' = IstrZero
          /\ daddr' = [ef |-> TRUE, add |-> 0]
          /\ C17_Configured(ep_reg', bdt')
          /\ UNCHANGED <<cntr, btable>>
          /\ op = "reset" => UNCHANGED regVars
      ]_vars

\* reset() has put a suspended device with stalled endpoints back to the
\* reset configuration
C17_Witness ==
    /\ op = "reset"
    /\ cntr.fsusp
    /\ istr = IstrZero
    /\ daddr = [ef |-> TRUE, add |-> 0]
    /\ ep_reg[0].stat_rx = "Valid"
    /\ ep_reg[0].stat_tx = "Nak"
    /\ bdt[0].addr_tx # bdt[0].addr_rx

\* C18: force_reset on a driver without the reset capability returns
\* Unsupported and writes no register and does not touch the pin; with the
\* capability it returns Ok, drives the pin low, and the power-down bit (and
\* the rest of the control register) is after the call what it was before.
C18_ForceReset ==
    [][op' = "force_reset" =>
          /\ ~panicked'
          /\ call'.fn = "force_reset"
          /\ IF reset_cap
             THEN /\ call'.kind = "Ok"
                  /\ cntr'.pdwn = cntr.pdwn
                  /\ cntr' = cntr
                  /\ reset_pin' = "low"
             ELSE /\ call'.kind = "Unsupported"
                  /\ UNCHANGED <<regVars, reset_pin>>
          /\ UNCHANGED <<btable, istr, daddr, ep_reg, bdt>>
      ]_vars

\* a forced reset on a suspended, powered-up device returned Ok
C18_Witness ==
    /\ op = "force_reset"
    /\ call.kind = "Ok"
    /\ reset_cap
    /\ reset_pin = "low"
    /\ ~cntr.pdwn
    /\ cntr.fsusp

(***************************************************************************)
(* Properties of poll at the grain of register accesses and of calls from  *)
(* an interrupt handler (specification SpecIsr).                           *)
(***************************************************************************)
\* the result a wakeup is reported with when D+ reads rxdp
C12_Expected(rxdp) == IF rxdp THEN "Suspend" ELSE "Resume"

\* C12: when the wakeup bit is set, poll clears it and reports Resume exactly
\* when D+ reads low (whatever D- reads) and Suspend for every other
\* combination of the data lines; the reset, suspend and correct-transfer
\* bits have no part in the result and are left as they are.
C12_WakeupByLines ==
    [][/\ (pc = "branch" /\ snap.wkup /\ op' = "poll_modify_read") =>
             /\ pc' = "modify"
             /\ UNCHANGED regVars
       /\ (pc = "modify" /\ snap.wkup /\ op' = "poll_modify_write") =>
             /\ pc' = "fnr"
             /\ istr' = [istr EXCEPT !.wkup = FALSE]
             /\ UNCHANGED <<cntr, btable, daddr, ep_reg, bdt>>
       /\ (pc = "fnr" /\ op' = "poll_fnr") =>
             /\ snap.wkup
             /\ res_kind' = C12_Expected(fnr.rxdp)
             /\ UNCHANGED regVars
       /\ (pc = "ret" /\ snap.wkup /\ op' = "poll_return") =>
             /\ ret'.kind = res_kind
             /\ ret'.kind \in {"Resume", "Suspend"}
             /\ UNCHANGED regVars
       /\ (op' = "isr_poll" /\ guard = "free" /\ istr.wkup) =>
             /\ ret'.kind = C12_Expected(fnr.rxdp)
             /\ istr' = [istr EXCEPT !.wkup = FALSE]
             /\ UNCHANGED <<cntr, btable, daddr, ep_reg, bdt>>
      ]_vars

\* a wakeup was reported as Resume with D+ low and D- high, while reset,
\* suspend and a transfer completion are pending and stay so
C12_Witness ==
    /\ op = "poll_fnr"
    /\ res_kind = "Resume"
    /\ ~fnr.rxdp /\ fnr.rxdm
    /\ ~istr.wkup
    /\ istr.reset /\ istr.susp
    /\ IstrCtr(ep_reg)

\* the operations of C19 as steps of an interrupt handler
C19_HandlerOps ==
    {"isr_poll", "isr_reset", "isr_set_device_address", "isr_suspend", "isr_resume",
     "isr_force_reset"}

\* C19 (as claimed): whatever driver operation an interrupt handler invokes
\* while a poll of the main context holds the register guard, the operation
\* completes or returns the idle result; it never panics.
C19_ContentionNeverFaults ==
    [][(pc # "idle" /\ guard = "held" /\ op' \in C19_HandlerOps) => ~panicked']_vars

\* C20 (as claimed): between the read and the write of a register modify
\* interrupts are masked, and no interrupt handler runs.
C20_MutationsMasked ==
    /\ [](pc \in RmwWindow => masked)
    /\ [][(pc \in RmwWindow) => (op' \notin C19_HandlerOps)]_vars

====
